---- MODULE Spec2Model ----
(***************************************************************************)
(* The JSON category API of mediacore/controllers/api/categories.py:       *)
(* CategoriesController.index and .tree with the helpers _index_query,     *)
(* _get_query, _expand and _info, over a store of categories that form a   *)
(* forest.  One request is handled at a time; the store and the settings   *)
(* are only read.                                                          *)
(***************************************************************************)
EXTENDS Integers, Sequences, FiniteSets, TLC

VARIABLES
    store,      \* the categories table: store[i] is the row with id i
    settings,   \* request.settings
    pc,         \* "idle": waiting for a request; "done": a response is ready;
                \* "expanding", "expanded": in and after the handler's call of _expand
    request,    \* the request being answered: endpoint and supplied parameters
    response,   \* what the handler returned (or the exception it let escape)
    queried,    \* whether the handler reached the store (Category.query)
    frames,     \* the calls of _expand on a Category still to be made, next first
    calls       \* the calls of _expand on a Category made: <<category id, level>>

vars == <<store, settings, pc, request, response, queried, frames, calls>>

----------------------------------------------------------------------------
(* Bounds of the model *)

\* at most this many categories in the store
MaxCats == 3
\* requested depths are 0 .. MaxDepth
MaxDepth == 3
\* requested limits are 1 .. MaxLimit, requested offsets 0 .. MaxLimit - 1
MaxLimit == 3

----------------------------------------------------------------------------
(* Program constants *)

\* Python's None in an integer-valued field (ids are positive)
None == 0
\* index(..., offset=0, ...), _index_query(..., offset=0, ...)
DefaultOffset == 0
\* index(..., limit=10, ...), _index_query(..., limit=10, ...)
DefaultLimit == 10
\* tree(depth=10, ...), _index_query(..., depth=10), _get_query(..., depth=10)
DefaultDepth == 10
\* "The maximum allowed value defaults to 50" (api_media_max_results)
DefaultMaxResults == 50
\* "The maximum allowed value defaults to 10" (api_tree_max_depth)
DefaultTreeMaxDepth == 10

Min(a, b) == IF a <= b THEN a ELSE b

----------------------------------------------------------------------------
(* The store: Category rows.  Names repeat (they are not unique), slugs    *)
(* are unique, the parent relation is a forest.                            *)

\* decimal numerals, as they arrive in a query string
IdStr == <<"1", "2", "3", "4", "5", "6", "7", "8", "9">>

NameOf(i) == IF i % 2 = 1 THEN "news" ELSE "sports"
SlugOf(i) == "c" \o IdStr[i]

\* every string that can be a sort key, in ascending (lexicographic) order
SortedStrings == [i \in 1 .. 9 |-> SlugOf(i)] \o <<"news", "sports">>
StrRank(s) == CHOOSE i \in 1 .. Len(SortedStrings) : SortedStrings[i] = s

RECURSIVE Ancestors(_, _, _)
\* the ids met walking k parent links up from i under the parent map par
Ancestors(par, i, k) ==
    IF k = 0 \/ par[i] = None THEN {}
    ELSE {par[i]} \cup Ancestors(par, par[i], k - 1)

IsForest(par) ==
    \A i \in DOMAIN par : i \notin Ancestors(par, i, Len(par))

ParentMaps ==
    UNION {{par \in [1 .. n -> {None} \cup (1 .. n)] : IsForest(par)} : n \in 0 .. MaxCats}

RECURSIVE SubtreeSize(_, _, _)
\* the number of categories in the subtree of i, to k levels
SubtreeSize(par, i, k) ==
    IF k = 0 THEN 1
    ELSE LET kids == {j \in DOMAIN par : par[j] = i}
             RECURSIVE Sum(_)
             Sum(S) == IF S = {} THEN 0
                       ELSE LET j == CHOOSE x \in S : TRUE
                            IN SubtreeSize(par, j, k - 1) + Sum(S \ {j})
         IN 1 + Sum(kids)

\* the table built over a parent map; every category holds one published
\* media item of its own, so media_count_published is the subtree's size
Table(par) ==
    [i \in DOMAIN par |->
        [id |-> i, name |-> NameOf(i), slug |-> SlugOf(i), parent_id |-> par[i],
         media_count_published |-> SubtreeSize(par, i, Len(par))]]

Stores == {Table(par) : par \in ParentMaps}

SettingsSet ==
    [api_secret_key_required : BOOLEAN,
     api_secret_key : {"secret"},
     api_media_max_results : {1, 2, DefaultMaxResults},
     api_tree_max_depth : {1, DefaultTreeMaxDepth}]

----------------------------------------------------------------------------
(* Keyword arguments: a dict is a function from the supplied keys *)

Empty == [k \in {} |-> ""]
Opt(k, vals) == {Empty} \cup {[x \in {k} |-> v] : v \in vals}
Arg(p, k, default) == IF k \in DOMAIN p THEN p[k] ELSE default
Restrict(p, keys) == [k \in (DOMAIN p) \cap keys |-> p[k]]
\* Python's truth value of a string-or-None argument: None and '' are false
Truthy(p, k) == k \in DOMAIN p /\ p[k] # ""

----------------------------------------------------------------------------
(* The query layer, as the controller uses it *)

\* Category.query: every row of the table
Category_query == {store[i] : i \in DOMAIN store}

\* Category.query.roots(): the categories without a parent
roots(query) == {c \in query : c.parent_id = None}

\* Category.children: the direct children, in the store's order (by id)
children(cat) ==
    LET kids == {i \in DOMAIN store : store[i].parent_id = cat.id}
        RECURSIVE Asc(_)
        Asc(S) == IF S = {} THEN <<>>
                  ELSE LET m == CHOOSE x \in S : \A y \in S : x <= y
                       IN <<store[m]>> \o Asc(S \ {m})
    IN Asc(kids)

\* query.filter_by(col=value); a numeral compared with the integer id column
\* is converted, and a comparison with None (IS NULL) matches no row
filter_by(query, col, p) ==
    IF col \notin DOMAIN p THEN {}
    ELSE IF col = "id"
         THEN {c \in query : \E i \in 1 .. Len(IdStr) : IdStr[i] = p[col] /\ c.id = i}
         ELSE {c \in query : c[col] = p[col]}

\* the allow-list of ORDER BY columns, each with the row field it sorts on;
\* 'media_count' is taken to sort on the published count that _info returns
\* as media_count
order_columns ==
    [id |-> "id", name |-> "name", slug |-> "slug",
     media_count |-> "media_count_published"]

OrderWords ==
    [col : DOMAIN order_columns \cup {"parent", "bogus"}, dir : {"asc", "desc"}]
OrderString(w) == w.col \o " " \o w.dir
\* order.split(' ')
SplitOrder(order) == CHOOSE w \in OrderWords : OrderString(w) = order

\* get_order_by(order, columns): the column and direction to sort on; an
\* unrecognized column is an error
get_order_by(order, columns) ==
    LET w == SplitOrder(order)
    IN IF w.col \in DOMAIN columns
       THEN [raised |-> FALSE, field |-> columns[w.col], dir |-> w.dir]
       ELSE [raised |-> TRUE]

SortKey(c, field) ==
    IF field \in {"name", "slug"} THEN StrRank(c[field]) ELSE c[field]

Before(a, b, ob) ==
    IF ob.dir = "asc" THEN SortKey(a, ob.field) <= SortKey(b, ob.field)
    ELSE SortKey(a, ob.field) >= SortKey(b, ob.field)

RECURSIVE order_by_all(_, _)
\* query.order_by(ob) ... .all(): the rows in the requested order; the order
\* of rows with equal keys is the store's choice
order_by_all(query, ob) ==
    IF query = {} THEN {<<>>}
    ELSE UNION {{<<m>> \o t : t \in order_by_all(query \ {m}, ob)} :
                m \in {a \in query : \A b \in query : Before(a, b, ob)}}

\* query.count()
count(query) == Cardinality(query)

\* query.offset(start).limit(limit), applied to the ordered rows
offset_limit(rows, start, limit) ==
    SubSeq(rows, start + 1, Min(Len(rows), start + limit))

----------------------------------------------------------------------------
(* CategoriesController *)

\* variant: the category's own id where its parent_id belongs
_info_own_id(cat) ==
    [id |-> cat.id, name |-> cat.name, slug |-> cat.slug,
     parent |-> cat.id, media_count |-> cat.media_count_published]

\* _info: the JSON-ready dict of one category
_info(cat) ==
    [id |-> cat.id, name |-> cat.name, slug |-> cat.slug,
     parent |-> cat.parent_id, media_count |-> cat.media_count_published]

\* variant: the children are expanded with the depth of their parent
child_depth_same(depth) == depth

\* depth - 1, the depth _expand passes down to the children
child_depth(depth) == depth - 1

RECURSIVE _expand(_, _, _)
RECURSIVE _expand_list(_, _, _)
\* variant: children are still attached when the depth has reached 0
_expand_at_zero(obj, withChildren, depth) ==
    IF withChildren /\ depth >= 0
    THEN [children |-> _expand_list(children(obj), withChildren, depth - 1)]
         @@ _info(obj)
    ELSE _info(obj)

\* _expand on a Category
_expand(obj, withChildren, depth) ==
    IF withChildren /\ depth > 0
    THEN [children |-> _expand_list(children(obj), withChildren, child_depth(depth))]
         @@ _info(obj)
    ELSE _info(obj)

\* _expand on a list
_expand_list(objs, withChildren, depth) ==
    [i \in 1 .. Len(objs) |-> _expand(objs[i], withChildren, depth)]

\* variant: a request without any api_key is let through
auth_failed_given_key_only(p) ==
    /\ settings.api_secret_key_required
    /\ "api_key" \in DOMAIN p /\ p.api_key # settings.api_secret_key

\* asbool(api_secret_key_required) and api_key != api_secret_key
auth_failed(p) ==
    /\ settings.api_secret_key_required
    /\ ~("api_key" \in DOMAIN p /\ p.api_key = settings.api_secret_key)

\* any(key in kwargs for key in ('id', 'slug', 'name'))
is_lookup(kwargs) == \E key \in {"id", "slug", "name"} : key \in DOMAIN kwargs

\* variant: the default the docstring of index states, newest first
default_order_id_desc(args) == IF Truthy(args, "order") THEN args.order ELSE "id desc"

\* if not order: order = 'id asc'
default_order(args) == IF Truthy(args, "order") THEN args.order ELSE "id asc"

\* variant: the requested limit is used as it comes
clamp_limit_unclamped(limit) == limit

\* limit = min(int(limit), int(api_media_max_results))
clamp_limit(limit) == Min(limit, settings.api_media_max_results)

\* depth = min(int(depth), int(api_tree_max_depth))
clamp_depth(depth) == Min(depth, settings.api_tree_max_depth)

\* the filter _get_query builds: by id, else by name, else by slug
select_filter(kwargs) ==
    IF Truthy(kwargs, "id") THEN "id"
    ELSE IF Truthy(kwargs, "name") THEN "name"
    ELSE "slug"

\* variant: query.first() in place of query.one()
first_or_error(matches, tree, depth) ==
    IF matches # {}
    THEN [category |->
            _expand(CHOOSE c \in matches : \A d \in matches : c.id <= d.id, tree, depth)]
    ELSE [error |-> "No Match found"]

\* query.one() under the try/except of _get_query
one_or_error(matches, tree, depth) ==
    IF Cardinality(matches) = 1
    THEN [category |-> _expand(CHOOSE c \in matches : TRUE, tree, depth)]
    ELSE [error |-> "No Match found"]

\* variant: the rows are counted after offset and limit are applied
_index_query_count_of_page(args) ==
    LET tree == Arg(args, "tree", FALSE)
        query == IF tree THEN roots(Category_query) ELSE Category_query
        ob == get_order_by(default_order(args), order_columns)
        start == Arg(args, "offset", DefaultOffset)
        limit == clamp_limit(Arg(args, "limit", DefaultLimit))
        depth == clamp_depth(Arg(args, "depth", DefaultDepth))
    IN IF ob.raised THEN {[raised |-> "APIException"]}
       ELSE {[categories |-> _expand_list(offset_limit(rows, start, limit), tree, depth),
              count |-> Len(offset_limit(rows, start, limit))] :
                rows \in order_by_all(query, ob)}

\* _index_query(order, offset, limit, tree, depth): the responses it can give
_index_query(args) ==
    LET tree == Arg(args, "tree", FALSE)
        query == IF tree THEN roots(Category_query) ELSE Category_query
        ob == get_order_by(default_order(args), order_columns)
        start == Arg(args, "offset", DefaultOffset)
        limit == clamp_limit(Arg(args, "limit", DefaultLimit))
        depth == clamp_depth(Arg(args, "depth", DefaultDepth))
    IN IF ob.raised THEN {[raised |-> "APIException"]}
       ELSE {[categories |-> _expand_list(offset_limit(rows, start, limit), tree, depth),
              count |-> count(query)] : rows \in order_by_all(query, ob)}

\* _get_query(id, name, slug, tree, depth, **kwargs)
_get_query(kwargs) ==
    LET depth == clamp_depth(Arg(kwargs, "depth", DefaultDepth))
        col == select_filter(kwargs)
    IN one_or_error(filter_by(Category_query, col, kwargs),
                    Arg(kwargs, "tree", FALSE), depth)

\* the arguments index passes on to _get_query and to _index_query
index_lookup_args(p) ==
    [offset |-> Arg(p, "offset", DefaultOffset),
     limit |-> Arg(p, "limit", DefaultLimit), tree |-> FALSE]
    @@ Restrict(p, DOMAIN p \ {"order", "offset", "limit", "api_key"})

index_list_args(p) ==
    [offset |-> Arg(p, "offset", DefaultOffset),
     limit |-> Arg(p, "limit", DefaultLimit), tree |-> FALSE]
    @@ Restrict(p, {"order"})

\* the arguments tree passes on to _get_query and to _index_query
tree_lookup_args(p) ==
    [depth |-> Arg(p, "depth", DefaultDepth), tree |-> TRUE]
    @@ Restrict(p, DOMAIN p \ {"depth", "api_key"})

\* variant: order, offset and limit of the request are passed on
tree_list_args_forwarding(p) ==
    [depth |-> Arg(p, "depth", DefaultDepth), tree |-> TRUE]
    @@ Restrict(p, {"order", "offset", "limit"})

tree_list_args(p) ==
    [depth |-> Arg(p, "depth", DefaultDepth), tree |-> TRUE]

\* index(order, offset, limit, api_key, **kwargs): its possible outcomes
index(p) ==
    IF auth_failed(p)
    THEN {[response |-> [error |-> "Authentication Error"], queried |-> FALSE]}
    ELSE IF is_lookup(Restrict(p, DOMAIN p \ {"order", "offset", "limit", "api_key"}))
    THEN {[response |-> _get_query(index_lookup_args(p)), queried |-> TRUE]}
    ELSE {[response |-> r, queried |-> TRUE] : r \in _index_query(index_list_args(p))}

\* tree(depth, api_key, **kwargs): its possible outcomes
tree(p) ==
    IF auth_failed(p)
    THEN {[response |-> [error |-> "Authentication Error"], queried |-> FALSE]}
    ELSE IF is_lookup(Restrict(p, DOMAIN p \ {"depth", "api_key"}))
    THEN {[response |-> _get_query(tree_lookup_args(p)), queried |-> TRUE]}
    ELSE {[response |-> r, queried |-> TRUE] : r \in _index_query(tree_list_args(p))}

----------------------------------------------------------------------------
(* Requests *)

Orders == {OrderString(w) : w \in OrderWords}
Offsets == 0 .. (MaxLimit - 1)
Limits == 1 .. MaxLimit
Depths == 0 .. MaxDepth
IdArgs == {"", "0"} \cup {IdStr[i] : i \in 1 .. (MaxCats + 1)}
NameArgs == {"", "news", "sports"}
SlugArgs == {SlugOf(1), SlugOf(MaxCats + 1)}
KeyArgs == {"secret", "wrong"}

Merge3(A, B, C) == {a @@ b @@ c : a \in A, b \in B, c \in C}

\* pagination and ordering of the flat list
ListParams ==
    Merge3(Opt("order", Orders \cup {""}), Opt("offset", Offsets), Opt("limit", Limits))

\* the lookup keys, in every combination
LookupParams ==
    Merge3(Opt("id", IdArgs), Opt("name", NameArgs), Opt("slug", SlugArgs)) \ {Empty}

\* parameters the tree endpoint accepts but has no use for
StrayParams ==
    {Empty, [order |-> "id desc"], [offset |-> 1], [limit |-> 1],
     [order |-> "name desc", offset |-> 1, limit |-> 1]}

\* lookups of a subtree: by id, by name, by slug, and with several keys
TreeLookupParams ==
    {[id |-> v] : v \in IdArgs} \cup {[name |-> v] : v \in NameArgs}
    \cup {[slug |-> v] : v \in SlugArgs}
    \cup {[id |-> "", slug |-> SlugOf(1)], [id |-> "1", name |-> "sports", offset |-> 1]}

\* requests that are repeated with an api_key, right and wrong
IndexKeyed ==
    {Empty, [order |-> "bogus asc"], [order |-> "name asc", offset |-> 1, limit |-> 1],
     [id |-> "1"], [name |-> "news"], [slug |-> SlugOf(1), depth |-> 2]}
TreeKeyed ==
    {Empty, [depth |-> 1], [id |-> "1"], [depth |-> 2, name |-> "sports"],
     [depth |-> 0, limit |-> 1]}

WithKey(P) == {[api_key |-> k] @@ q : k \in KeyArgs, q \in P}

IndexRequests ==
    ListParams \cup LookupParams \cup {[slug |-> SlugOf(1), depth |-> 2]}
    \cup WithKey(IndexKeyed)

TreeRequests ==
    {d @@ q : d \in Opt("depth", Depths), q \in StrayParams \cup TreeLookupParams}
    \cup WithKey(TreeKeyed)

NoRequest == [endpoint |-> "none", params |-> Empty]
NoResponse == Empty

----------------------------------------------------------------------------
(* The state machine *)

Init ==
    /\ store \in Stores
    /\ settings \in SettingsSet
    /\ pc = "idle"
    /\ request = NoRequest
    /\ response = NoResponse
    /\ queried = FALSE
    /\ frames = <<>>
    /\ calls = {}

\* a request to /api/categories is answered
Index ==
    /\ pc = "idle"
    /\ \E p \in IndexRequests : \E out \in index(p) :
          /\ request' = [endpoint |-> "index", params |-> p]
          /\ response' = out.response
          /\ queried' = out.queried
    /\ pc' = "done"
    /\ UNCHANGED <<store, settings, frames, calls>>

\* a request to /api/categories/tree is answered
Tree ==
    /\ pc = "idle"
    /\ \E p \in TreeRequests : \E out \in tree(p) :
          /\ request' = [endpoint |-> "tree", params |-> p]
          /\ response' = out.response
          /\ queried' = out.queried
    /\ pc' = "done"
    /\ UNCHANGED <<store, settings, frames, calls>>

\* the response is sent; nothing of the request is kept
Return ==
    /\ pc = "done"
    /\ pc' = "idle"
    /\ request' = NoRequest
    /\ response' = NoResponse
    /\ queried' = FALSE
    /\ frames' = <<>>
    /\ calls' = {}
    /\ UNCHANGED <<store, settings>>

Next == Index \/ Tree \/ Return

Spec == Init /\ [][Next]_vars

----------------------------------------------------------------------------
(* The tree endpoint with the recursion of _expand taken one call at a     *)
(* time: a frame is a call of _expand on one Category that is still to be  *)
(* made, with the depth it is given and its level below the top.           *)

\* the categories the tree endpoint hands to _expand, in order
expand_arguments(p) ==
    IF is_lookup(Restrict(p, DOMAIN p \ {"depth", "api_key"}))
    THEN LET matches == filter_by(Category_query, select_filter(tree_lookup_args(p)),
                                  tree_lookup_args(p))
         IN IF Cardinality(matches) = 1 THEN {<<CHOOSE c \in matches : TRUE>>} ELSE {}
    ELSE {offset_limit(rows, DefaultOffset, clamp_limit(DefaultLimit)) :
            rows \in order_by_all(roots(Category_query),
                                  get_order_by("id asc", order_columns))}

FramesOf(objs, depth, level) ==
    [i \in 1 .. Len(objs) |-> [id |-> objs[i].id, depth |-> depth, level |-> level]]

\* a request to /api/categories/tree reaches its call of _expand
TreeBegin ==
    /\ pc = "idle"
    /\ \E p \in TreeRequests :
          /\ ~auth_failed(p)
          /\ \E objs \in expand_arguments(p) :
                frames' = FramesOf(objs, clamp_depth(Arg(p, "depth", DefaultDepth)), 0)
          /\ request' = [endpoint |-> "tree", params |-> p]
    /\ pc' = "expanding"
    /\ queried' = TRUE
    /\ calls' = {}
    /\ UNCHANGED <<store, settings, response>>

\* the next call of _expand on a Category: its info is taken, and its
\* children are to be expanded next when the depth allows
ExpandStep ==
    /\ pc = "expanding"
    /\ frames # <<>>
    /\ LET f == Head(frames)
       IN /\ calls' = calls \cup {<<f.id, f.level>>}
          /\ frames' =
                IF f.depth > 0
                THEN FramesOf(children(store[f.id]), child_depth(f.depth), f.level + 1)
                     \o Tail(frames)
                ELSE Tail(frames)
    /\ UNCHANGED <<store, settings, pc, request, response, queried>>

\* every call has been made: the outermost _expand returns to the handler
ExpandReturn ==
    /\ pc = "expanding"
    /\ frames = <<>>
    /\ pc' = "expanded"
    /\ UNCHANGED <<store, settings, request, response, queried, frames, calls>>

\* the handler returns its dict
TreeEnd ==
    /\ pc = "expanded"
    /\ \E out \in tree(request.params) : response' = out.response
    /\ pc' = "done"
    /\ UNCHANGED <<store, settings, request, queried, frames, calls>>

InitExpand ==
    /\ Init
    /\ ~settings.api_secret_key_required
    /\ settings.api_media_max_results = DefaultMaxResults

NextExpand == TreeBegin \/ ExpandStep \/ ExpandReturn \/ TreeEnd \/ Return

\* a call of _expand that has started runs on until it returns
SpecExpand ==
    InitExpand /\ [][NextExpand]_vars /\ WF_vars(ExpandStep) /\ WF_vars(ExpandReturn)

----------------------------------------------------------------------------
(* What the claims speak of *)

P == request.params
LookupKeys == {"id", "name", "slug"}

\* the key is required and the supplied one is missing or wrong
KeyRefused ==
    /\ settings.api_secret_key_required
    /\ ("api_key" \notin DOMAIN P \/ P.api_key # settings.api_secret_key)

\* a response is ready for a request that passed the key check and ...
\* ... named a category by id, name or slug
LookupAnswered == pc = "done" /\ ~KeyRefused /\ (DOMAIN P) \cap LookupKeys # {}
\* ... named none
ListAnswered == pc = "done" /\ ~KeyRefused /\ (DOMAIN P) \cap LookupKeys = {}

\* the ids of the rows whose column col equals the value supplied for it
MatchingIds(col) ==
    {i \in DOMAIN store :
        /\ col \in DOMAIN P
        /\ IF col = "id" THEN i <= Len(IdStr) /\ IdStr[i] = P.id
           ELSE store[i][col] = P[col]}

\* the depth an expansion starts from
StartDepth ==
    Min(IF "depth" \in DOMAIN P THEN P.depth ELSE DefaultDepth,
        settings.api_tree_max_depth)

----------------------------------------------------------------------------
\* C1: when the key is required and the supplied api_key is missing or
\* differs from it, both endpoints answer exactly {error: "Authentication
\* Error"}, whatever the other parameters and the store, and the store is
\* not queried.
C1_AuthenticationError ==
    (pc = "done" /\ KeyRefused)
        => (response = [error |-> "Authentication Error"] /\ ~queried)

\* a lookup on the tree endpoint with a wrong key, over a store that holds
\* the category asked for
C1_Witness ==
    /\ pc = "done" /\ KeyRefused /\ request.endpoint = "tree"
    /\ "api_key" \in DOMAIN P /\ "id" \in DOMAIN P
    /\ MatchingIds("id") # {}
    /\ response = [error |-> "Authentication Error"]

\* C2: a lookup whose selected key matches no category or several returns
\* {error: "No Match found"} and raises nothing; it returns {category: ...}
\* only when exactly one category matches, and then that category.
C2_LookupOneOrError ==
    LookupAnswered =>
        LET m == MatchingIds(select_filter(P))
        IN /\ "raised" \notin DOMAIN response
           /\ IF Cardinality(m) = 1
              THEN /\ DOMAIN response = {"category"}
                   /\ response.category.id \in m
              ELSE response = [error |-> "No Match found"]

\* a name shared by several categories is looked up
C2_Witness ==
    /\ LookupAnswered
    /\ select_filter(P) = "name"
    /\ Cardinality(MatchingIds("name")) > 1
    /\ response = [error |-> "No Match found"]

\* the key the first non-null argument selects: id, else name, else slug
FirstNonNull ==
    IF "id" \in DOMAIN P THEN "id"
    ELSE IF "name" \in DOMAIN P THEN "name"
    ELSE "slug"

\* C6: a lookup filters by the first non-null of id, name, slug, whatever
\* the value (the empty string included): the response is the one the
\* filter on that key alone gives.
C6_FirstNonNullWins ==
    LookupAnswered =>
        response = one_or_error(filter_by(Category_query, FirstNonNull, P),
                                request.endpoint = "tree", StartDepth)

----------------------------------------------------------------------------
\* the category records at the top of the response
TopRecords ==
    IF "categories" \in DOMAIN response THEN response.categories
    ELSE IF "category" \in DOMAIN response THEN <<response.category>>
    ELSE <<>>

RECURSIVE ChildrenKeyIff(_, _, _)
\* rec and every record below it has a children key exactly when expansion
\* was asked for and the depth left at it is positive
ChildrenKeyIff(rec, expanding, d) ==
    /\ ("children" \in DOMAIN rec) <=> (expanding /\ d > 0)
    /\ "children" \in DOMAIN rec =>
          \A i \in 1 .. Len(rec.children) : ChildrenKeyIff(rec.children[i], expanding, d - 1)

RECURSIVE Levels(_)
\* the number of nested children lists below rec
Levels(rec) ==
    IF "children" \notin DOMAIN rec THEN 0
    ELSE LET below == {Levels(rec.children[i]) : i \in 1 .. Len(rec.children)}
         IN 1 + (IF below = {} THEN 0 ELSE CHOOSE m \in below : \A x \in below : x <= m)

\* C3: a category record carries a children key if and only if tree
\* expansion was requested and the depth left at that record is positive,
\* starting from min(requested depth, api_tree_max_depth); so no record is
\* nested more than that many levels below a top-level record.
C3_ChildrenKeyIffDepth ==
    pc = "done" =>
        \A i \in 1 .. Len(TopRecords) :
            /\ ChildrenKeyIff(TopRecords[i], request.endpoint = "tree", StartDepth)
            /\ Levels(TopRecords[i]) <= (IF request.endpoint = "tree" THEN StartDepth ELSE 0)

\* the requested depth is cut to api_tree_max_depth, and a record at the
\* last level has no children key although the store has children for it
C3_Witness ==
    /\ pc = "done" /\ request.endpoint = "tree"
    /\ "depth" \in DOMAIN P /\ P.depth > settings.api_tree_max_depth
    /\ \E i \in 1 .. Len(TopRecords) :
          /\ "children" \in DOMAIN TopRecords[i]
          /\ \E j \in 1 .. Len(TopRecords[i].children) :
                LET c == TopRecords[i].children[j]
                IN /\ "children" \notin DOMAIN c
                   /\ \E k \in DOMAIN store : store[k].parent_id = c.id

\* C4: the count of a list response is the number of categories the query
\* matches before pagination, all of them for the flat list and the roots
\* for the tree, whatever the offset and the limit.
C4_CountIsTotal ==
    (ListAnswered /\ "raised" \notin DOMAIN response) =>
        /\ "count" \in DOMAIN response
        /\ response.count =
              Cardinality({i \in DOMAIN store :
                              request.endpoint = "tree" => store[i].parent_id = None})

\* a page that starts past the first row and ends before the last
C4_Witness ==
    /\ ListAnswered /\ request.endpoint = "index"
    /\ "offset" \in DOMAIN P /\ "limit" \in DOMAIN P
    /\ "count" \in DOMAIN response
    /\ response.count > P.offset + Len(response.categories)
    /\ Len(response.categories) > 0

EffLimit ==
    Min(IF "limit" \in DOMAIN P THEN P.limit ELSE DefaultLimit,
        settings.api_media_max_results)
EffOffset == IF "offset" \in DOMAIN P THEN P.offset ELSE DefaultOffset
EffOrder == IF "order" \in DOMAIN P /\ P.order # "" THEN P.order ELSE "id asc"

\* C5: the flat list returns at most min(limit, api_media_max_results)
\* records, and they are the ordered matching rows at the positions
\* offset .. offset + min(limit, api_media_max_results) - 1.
C5_LimitClamped ==
    (ListAnswered /\ request.endpoint = "index" /\ "categories" \in DOMAIN response) =>
        LET n == Len(response.categories)
            total == Cardinality(DOMAIN store)
            rest == IF total > EffOffset THEN total - EffOffset ELSE 0
        IN /\ n <= EffLimit
           /\ n = Min(EffLimit, rest)
           /\ \E rows \in order_by_all(Category_query, get_order_by(EffOrder, order_columns)) :
                 \A i \in 1 .. n : response.categories[i].id = rows[EffOffset + i].id

\* a limit above the configured maximum, over a store with more rows
C5_Witness ==
    /\ ListAnswered /\ request.endpoint = "index" /\ "categories" \in DOMAIN response
    /\ "limit" \in DOMAIN P /\ P.limit > settings.api_media_max_results
    /\ Cardinality(DOMAIN store) > EffOffset + settings.api_media_max_results
    /\ Len(response.categories) = settings.api_media_max_results

RecKey(rec, col) == IF col \in {"name", "slug"} THEN StrRank(rec[col]) ELSE rec[col]
SortedBy(recs, col, dir) ==
    \A i, j \in 1 .. Len(recs) :
        i < j => IF dir = "asc" THEN RecKey(recs[i], col) <= RecKey(recs[j], col)
                 ELSE RecKey(recs[i], col) >= RecKey(recs[j], col)

RECURSIVE MirrorsStore(_)
\* rec shows the parent_id of its row, and its children list, when it has
\* one, is the row's direct children, each once, by ascending id
MirrorsStore(rec) ==
    /\ rec.id \in DOMAIN store
    /\ rec.parent = store[rec.id].parent_id
    /\ "children" \in DOMAIN rec =>
          LET kids == {k \in DOMAIN store : store[k].parent_id = rec.id}
          IN /\ Len(rec.children) = Cardinality(kids)
             /\ {rec.children[j].id : j \in 1 .. Len(rec.children)} = kids
             /\ \A j \in 1 .. Len(rec.children) :
                   /\ rec.children[j].parent = rec.id
                   /\ j > 1 => rec.children[j - 1].id < rec.children[j].id
                   /\ MirrorsStore(rec.children[j])

C10_TreeListingFixedPage ==
    (ListAnswered /\ request.endpoint = "tree") =>
        LET rootIds == {i \in DOMAIN store : store[i].parent_id = None}
            n == Min(Min(DefaultLimit, settings.api_media_max_results), Cardinality(rootIds))
        IN /\ DOMAIN response = {"categories", "count"}
           /\ response.count = Cardinality(rootIds)
           /\ Len(response.categories) = n
           /\ \A i \in 1 .. n :
                 /\ response.categories[i].id \in rootIds
                 /\ Cardinality({r \in rootIds : r < response.categories[i].id}) = i - 1

\* order, offset or limit is supplied and roots are left out of the page
C10_Witness ==
    /\ ListAnswered /\ request.endpoint = "tree"
    /\ (DOMAIN P) \cap {"order", "offset", "limit"} # {}
    /\ "count" \in DOMAIN response
    /\ response.count > Len(response.categories)

----------------------------------------------------------------------------
RECURSIVE RecordsAt(_, _)
\* the records of a response with their levels: <<category id, level>>
RecordsAt(recs, level) ==
    UNION {{<<recs[i].id, level>>}
           \cup (IF "children" \in DOMAIN recs[i]
                 THEN RecordsAt(recs[i].children, level + 1) ELSE {}) :
           i \in 1 .. Len(recs)}

\* every pending call is given the starting depth less its level, never
\* less than 0, and the calls made are the records of the response
DepthBounded ==
    /\ \A i \in 1 .. Len(frames) :
          /\ frames[i].depth = StartDepth - frames[i].level
          /\ frames[i].depth >= 0
    /\ \A c \in calls : c[2] <= StartDepth
    /\ pc = "done" => calls = RecordsAt(TopRecords, 0)

\* C9: tree expansion terminates on every forest and for every requested
\* depth: each step into the children is made with the depth reduced by
\* exactly 1, no call is made below level min(requested depth,
\* api_tree_max_depth), and the expansion returns to the handler.
C9_ExpandTerminates ==
    /\ []DepthBounded
    /\ (pc = "expanding") ~> (pc = "expanded")

\* an expansion has returned that went down to the last level allowed and
\* left children unexpanded there
C9_Witness ==
    /\ pc = "done" /\ StartDepth > 0
    /\ "depth" \in DOMAIN P /\ P.depth > StartDepth
    /\ \E c \in calls :
          /\ c[2] = StartDepth
          /\ \E k \in DOMAIN store : store[k].parent_id = c[1]

====
